---- MODULE Spec2Model ----
(***************************************************************************)
(* Model of the podcast-clipper backend (src/main.py): the PodcastClipper  *)
(* class, its container-start hook load_model and its HTTP handler         *)
(* process_video, run by several requests on one asyncio event loop.       *)
(*                                                                         *)
(* Times are whole seconds.  A piece of text that json.loads reads is a    *)
(* sequence of tokens (whitespace, code fences, one JSON document or       *)
(* junk); a parsed JSON value is a record [type, items, nonzero].          *)
(***************************************************************************)
EXTENDS Integers, Sequences, FiniteSets, TLC

VARIABLES handles, loopOwner, pc, token, run_id, dirs, files,
          transcript, payload, clip_moments, response, visited, calls

vars == <<handles, loopOwner, pc, token, run_id, dirs, files,
          transcript, payload, clip_moments, response, visited, calls>>

-----------------------------------------------------------------------------
(* Bounds *)

\* number of requests the container receives
MaxRuns == 2

Runs == 1 .. MaxRuns

\* the values uuid.uuid4() can return
RunIds == 1 .. MaxRuns

None == 0

-----------------------------------------------------------------------------
(* Program constants *)

\* os.environ["AUTH_TOKEN"], and the bearer tokens a request can carry
AUTH_TOKEN == "123123"

Tokens == {"123123", "wrong"}

\* the attributes load_model assigns on self
HandleNames == {"supabase", "bucket_name", "whisperx_model",
                "alignment_model", "metadata", "gemini_client"}

\* the prompt's clip length limits and the slice clip_moments[:3]
MinClipSeconds == 30

MaxClipSeconds == 60

MaxClips == 3

\* silence gap that makes a boundary, in tenths of a second
SilenceThresholdTenths == 6

-----------------------------------------------------------------------------
(* JSON values and text *)

Cand(s, e) == [keys |-> {"start", "end"}, start |-> s, end |-> e]

CandStartOnly(s) == [keys |-> {"start"}, start |-> s, end |-> 0]

JList(items) == [type |-> "list", items |-> items, nonzero |-> items # <<>>]

JObject == [type |-> "object", items |-> <<>>, nonzero |-> TRUE]

JNumber(n) == [type |-> "number", items |-> <<>>, nonzero |-> n # 0]

JString(nonempty) == [type |-> "string", items |-> <<>>, nonzero |-> nonempty]

Ws == [t |-> "ws", valid |-> FALSE, v |-> JNumber(0)]

FenceJson == [t |-> "fence_json", valid |-> FALSE, v |-> JNumber(0)]

Fence == [t |-> "fence", valid |-> FALSE, v |-> JNumber(0)]

\* the marker "fence_json" is the text of line 165, "fence" that of line 167

\* a JSON document holding value v
Doc(v) == [t |-> "text", valid |-> TRUE, v |-> v]

\* text that is not JSON
Junk == [t |-> "text", valid |-> FALSE, v |-> JNumber(0)]

\* str.strip(): drop leading and trailing whitespace
RECURSIVE LStrip(_)
LStrip(s) == IF s # <<>> /\ Head(s).t = "ws" THEN LStrip(Tail(s)) ELSE s

RECURSIVE RStrip(_)
RStrip(s) ==
  IF s # <<>> /\ s[Len(s)].t = "ws" THEN RStrip(SubSeq(s, 1, Len(s) - 1)) ELSE s

Strip(s) == RStrip(LStrip(s))

\* lines 164-168 of process_video
CleanJsonString(raw) ==
  LET a == Strip(raw)
      b == IF a # <<>> /\ Head(a).t = "fence_json" THEN Strip(Tail(a)) ELSE a
      c == IF b # <<>> /\ b[Len(b)].t = "fence"
           THEN Strip(SubSeq(b, 1, Len(b) - 1)) ELSE b
  IN c

\* json.loads succeeds exactly on one JSON document
JsonLoadsOk(s) == Len(s) = 1 /\ s[1].t = "text" /\ s[1].valid

JsonLoads(s) == s[1].v

\* json.dumps of a Python value
JsonDumps(v) == <<Doc(v)>>

\* Python truthiness and isinstance(x, list)
Truthy(v) == IF v.type = "list" THEN Len(v.items) > 0 ELSE v.nonzero

IsList(v) == v.type = "list"

\* variant of ClipMomentsOf: the isinstance test is missing
ClipMomentsOfAnyType(v) == IF ~Truthy(v) THEN <<>> ELSE <<v>>

\* lines 171-173: what clip_moments holds after the check
ClipMomentsOf(v) == IF ~Truthy(v) \/ ~IsList(v) THEN <<>> ELSE v.items

-----------------------------------------------------------------------------
(* Inputs the external services can answer with *)

\* one aligned segment as whisperx.align returns it
Seg(s, e, txt) == [start |-> s, end |-> e, text |-> txt]

\* lines 93-101 of transcribe_video: copy start, end and rename text to word
RECURSIVE Segments(_)
Segments(raw) ==
  IF raw = <<>> THEN <<>>
  ELSE <<[start |-> Head(raw).start, end |-> Head(raw).end, word |-> Head(raw).text]>>
       \o Segments(Tail(raw))

\* aligned results of the ASR model for the sample recordings
AlignResults ==
  { <<Seg(0, 10, "Hi."), Seg(10, 50, "Why?"), Seg(50, 90, "Because.")>>,
    <<Seg(0, 45, "One"), Seg(45, 100, "two.")>> }

\* answers of the generative model (response.text)
Payloads ==
  { <<Doc(JList(<<>>))>>,
    <<FenceJson, Ws, Doc(JList(<<Cand(10, 50)>>)), Ws, Fence>>,
    <<Doc(JList(<<Cand(45, 90), Cand(10, 50)>>))>>,
    <<Ws, Doc(JList(<<CandStartOnly(12)>>)), Ws>>,
    <<Doc(JObject)>>,
    <<Doc(JString(TRUE))>>,
    <<Junk>>,
    <<Fence, Ws, Doc(JList(<<>>)), Ws, Fence>> }

\* how the ffmpeg / whisperx stage can end
TranscribeOutcomes == {"ok", "ffmpeg_failed", "ffmpeg_failed_partial", "asr_failed"}

-----------------------------------------------------------------------------
(* State *)

\* pc[r]: where request r is.  "Idle": not yet received; "Rejected": 401;
\* "Created": line 145 done; "Downloading", "Transcribing",
\* "ProposingMoments": that external call is running; "Validating": lines
\* 164-175 are running; "Completed": the handler returned; "Failed": an
\* exception left the handler.
Stages == <<"Created", "Downloading", "Transcribing", "ProposingMoments",
            "Validating", "Completed">>

ExternalStages == {"Downloading", "Transcribing", "ProposingMoments"}

Terminal == {"Completed", "Failed"}

NoResponse == [kind |-> "none", status |-> 0, keys |-> {}, detail |-> ""]

\* line 141: HTTPException(status_code=401, detail="Invalid bearer token")
Unauthorized ==
  [kind |-> "http_exception", status |-> 401, keys |-> {"detail"},
   detail |-> "Invalid bearer token"]

\* the handler has no return statement: it returns None, served as null
ReturnedNone == [kind |-> "returned", status |-> 200, keys |-> {}, detail |-> "null"]

\* no try/except in process_video: the exception leaves the handler
Unhandled(exc) ==
  [kind |-> "unhandled_exception", status |-> 500, keys |-> {}, detail |-> exc]

\* variant of Authorized: the token comparison is missing
AuthorizedAlways(tok) == TRUE

\* line 140
Authorized(tok) == tok = AUTH_TOKEN

\* variant of NewRunIds: the identifier may repeat an earlier one
NewRunIdsReused(used) == RunIds

\* line 143: uuid4 returns an identifier no earlier call returned
NewRunIds(used) == RunIds \ used

\* line 144: base_dir = pathlib.Path("/tmp") / run_id
Workspace(id) == <<"tmp", id>>

File(dir, name) == [dir |-> dir, name |-> name]

UsedIds == {run_id[r] : r \in Runs} \ {None}

Loaded == \A h \in HandleNames : handles[h] = "set"

Init ==
  /\ handles = [h \in HandleNames |-> "unset"]
  /\ loopOwner = None
  /\ pc = [r \in Runs |-> "Idle"]
  /\ token = [r \in Runs |-> ""]
  /\ run_id = [r \in Runs |-> None]
  /\ dirs = {}
  /\ files = {}
  /\ transcript = [r \in Runs |-> <<>>]
  /\ payload = [r \in Runs |-> <<>>]
  /\ clip_moments = [r \in Runs |-> <<>>]
  /\ response = [r \in Runs |-> NoResponse]
  /\ visited = [r \in Runs |-> <<>>]
  /\ calls = [r \in Runs |-> [s \in ExternalStages |-> 0]]

runVars == <<pc, token, run_id, dirs, files, transcript, payload,
             clip_moments, response, visited, calls>>

-----------------------------------------------------------------------------
(* Operations *)

\* the order of the statements of process_video, lines 143-175
NextStage(s) ==
  CASE s = "Created" -> "Downloading"
    [] s = "Downloading" -> "Transcribing"
    [] s = "Transcribing" -> "ProposingMoments"
    [] s = "ProposingMoments" -> "Validating"
    [] s = "Validating" -> "Completed"

\* which statements of process_video are awaited (line 150 only): the
\* event loop is free while request r waits in such a stage
Awaited(s) == s = "Downloading"

LoopAfterEntering(r, s) == IF Awaited(s) \/ s \in Terminal THEN None ELSE r

\* request r moves on to stage s; an external stage is invoked on entry
Enter(r, s) ==
  /\ pc' = [pc EXCEPT ![r] = s]
  /\ visited' = [visited EXCEPT ![r] = Append(@, s)]
  /\ calls' = IF s \in ExternalStages
              THEN [calls EXCEPT ![r][s] = @ + 1] ELSE calls
  /\ loopOwner' = LoopAfterEntering(r, s)

\* variant of Raise: a failed external call is invoked again
RaiseRetrying(r, exc) ==
  IF pc[r] \in ExternalStages
  THEN /\ calls' = [calls EXCEPT ![r][pc[r]] = @ + 1]
       /\ visited' = [visited EXCEPT ![r] = Append(@, pc[r])]
       /\ UNCHANGED <<pc, response, loopOwner>>
  ELSE /\ pc' = [pc EXCEPT ![r] = "Failed"]
       /\ visited' = [visited EXCEPT ![r] = Append(@, "Failed")]
       /\ response' = [response EXCEPT ![r] = Unhandled(exc)]
       /\ loopOwner' = None
       /\ UNCHANGED calls

\* an exception raised inside process_video: nothing catches it, and the
\* cleanup of lines 183-186 is commented out
Raise(r, exc) ==
  /\ pc' = [pc EXCEPT ![r] = "Failed"]
  /\ visited' = [visited EXCEPT ![r] = Append(@, "Failed")]
  /\ response' = [response EXCEPT ![r] = Unhandled(exc)]
  /\ loopOwner' = None
  /\ UNCHANGED calls

\* modal.enter hook, lines 44-67
LoadModel ==
  /\ ~Loaded
  /\ handles' = [h \in HandleNames |-> "set"]
  /\ UNCHANGED <<loopOwner, runVars>>

\* lines 137-145: token check, run id, workspace directory
ReceiveRequest(r) ==
  /\ Loaded
  /\ pc[r] = "Idle"
  /\ loopOwner = None
  /\ \E tok \in Tokens :
       /\ token' = [token EXCEPT ![r] = tok]
       /\ IF ~Authorized(tok)
          THEN /\ pc' = [pc EXCEPT ![r] = "Rejected"]
               /\ response' = [response EXCEPT ![r] = Unauthorized]
               /\ UNCHANGED <<run_id, dirs, visited, calls, loopOwner>>
          ELSE /\ \E id \in NewRunIds(UsedIds) :
                    /\ run_id' = [run_id EXCEPT ![r] = id]
                    /\ dirs' = dirs \cup {Workspace(id)}
               /\ Enter(r, "Created")
               /\ UNCHANGED response
  /\ UNCHANGED <<handles, files, transcript, payload, clip_moments>>

\* lines 148-153: open input.mp4 for writing (open can raise) and await the
\* download thread
StartDownload(r) ==
  /\ pc[r] = "Created"
  /\ loopOwner = r
  /\ \E opened \in BOOLEAN :
       IF opened
       THEN /\ files' = files \cup {File(Workspace(run_id[r]), "input.mp4")}
            /\ Enter(r, NextStage("Created"))
            /\ UNCHANGED response
       ELSE /\ Raise(r, "OSError")
            /\ UNCHANGED files
  /\ UNCHANGED <<handles, token, run_id, dirs, transcript, payload,
                 clip_moments>>

\* lines 150-157: the download thread ends; on success the bytes are
\* written and transcribe_video is called on the event loop
FinishDownload(r) ==
  /\ pc[r] = "Downloading"
  /\ loopOwner = None
  /\ \E ok \in BOOLEAN :
       IF ok THEN Enter(r, NextStage("Downloading")) /\ UNCHANGED response
       ELSE Raise(r, "StorageApiError")
  /\ UNCHANGED <<handles, token, run_id, dirs, files, transcript, payload,
                 clip_moments>>

\* lines 69-103 and 157-162: ffmpeg writes audio.wav, whisperx transcribes
\* and aligns, the segments go through json.dumps and json.loads, and
\* identify_moments is called
FinishTranscribe(r) ==
  /\ pc[r] = "Transcribing"
  /\ loopOwner = r
  /\ \E out \in TranscribeOutcomes :
       /\ files' = IF out = "ffmpeg_failed" THEN files
                   ELSE files \cup {File(Workspace(run_id[r]), "audio.wav")}
       /\ IF out = "ok"
          THEN /\ \E raw \in AlignResults :
                    transcript' = [transcript EXCEPT ![r] =
                       JsonLoads(JsonDumps(JList(Segments(raw)))).items]
               /\ Enter(r, NextStage("Transcribing"))
               /\ UNCHANGED response
          ELSE /\ Raise(r, IF out = "asr_failed" THEN "RuntimeError"
                           ELSE "CalledProcessError")
               /\ UNCHANGED transcript
  /\ UNCHANGED <<handles, token, run_id, dirs, payload, clip_moments>>

\* lines 105-131 and 162: generate_content answers or raises
FinishPropose(r) ==
  /\ pc[r] = "ProposingMoments"
  /\ loopOwner = r
  /\ \E ok \in BOOLEAN :
       IF ok
       THEN /\ \E p \in Payloads : payload' = [payload EXCEPT ![r] = p]
            /\ Enter(r, NextStage("ProposingMoments"))
            /\ UNCHANGED response
       ELSE /\ Raise(r, "APIError")
            /\ UNCHANGED payload
  /\ UNCHANGED <<handles, token, run_id, dirs, files, transcript, clip_moments>>

\* lines 164-186: strip the fences, json.loads, the list check, print, and
\* the end of the handler (no return value, no cleanup)
ParseMoments(r) ==
  /\ pc[r] = "Validating"
  /\ loopOwner = r
  /\ LET cleaned == CleanJsonString(payload[r]) IN
       IF JsonLoadsOk(cleaned)
       THEN /\ clip_moments' = [clip_moments EXCEPT ![r] =
                                  ClipMomentsOf(JsonLoads(cleaned))]
            /\ Enter(r, NextStage("Validating"))
            /\ response' = [response EXCEPT ![r] = ReturnedNone]
       ELSE /\ Raise(r, "JSONDecodeError")
            /\ UNCHANGED clip_moments
  /\ UNCHANGED <<handles, token, run_id, dirs, files, transcript, payload>>

Next ==
  \/ LoadModel
  \/ \E r \in Runs : ReceiveRequest(r)
  \/ \E r \in Runs : StartDownload(r)
  \/ \E r \in Runs : FinishDownload(r)
  \/ \E r \in Runs : FinishTranscribe(r)
  \/ \E r \in Runs : FinishPropose(r)
  \/ \E r \in Runs : ParseMoments(r)

Spec == Init /\ [][Next]_vars

-----------------------------------------------------------------------------
(* The clip rules of the specification, sections 3 and 4.3 *)

\* words of the sample recordings that end a sentence
EndsSentence(w) == w \in {"Hi.", "Why?", "Because.", "two."}

\* legal clip edges of a transcript: first start, last end, sentence ends,
\* and token ends followed by a silence longer than the threshold
BoundarySet(tr) ==
  IF tr = <<>> THEN {}
  ELSE {tr[1].start, tr[Len(tr)].end}
       \cup {tr[i].end : i \in {j \in 1 .. Len(tr) : EndsSentence(tr[j].word)}}
       \cup {tr[i].end : i \in {j \in 1 .. Len(tr) - 1 :
                10 * (tr[j + 1].start - tr[j].end) > SilenceThresholdTenths}}

WellFormed(c) == c.keys = {"start", "end"} /\ c.end > c.start

ValidClipList(clips, bset) ==
  /\ Len(clips) <= MaxClips
  /\ \A i \in 1 .. Len(clips) :
       /\ WellFormed(clips[i])
       /\ clips[i].end - clips[i].start >= MinClipSeconds
       /\ clips[i].end - clips[i].start <= MaxClipSeconds
       /\ clips[i].start \in bset
       /\ clips[i].end \in bset
  /\ \A i \in 1 .. Len(clips) - 1 :
       /\ clips[i].start <= clips[i + 1].start
       /\ clips[i].end <= clips[i + 1].start

-----------------------------------------------------------------------------
(* Helpers of the properties *)

Contains(seq, x) == \E i \in 1 .. Len(seq) : seq[i] = x

IsPrefix(a, b) == Len(a) <= Len(b) /\ SubSeq(b, 1, Len(a)) = a

\* request r got past the proposal stage and its handler has ended
Parsed(r) == pc[r] \in Terminal /\ Contains(visited[r], "Validating")

OwnFiles(r) ==
  IF run_id[r] = None THEN {}
  ELSE {f \in files : f.dir = Workspace(run_id[r])}

OwnDir(r) == run_id[r] # None /\ Workspace(run_id[r]) \in dirs

StructuredFailureKeys == {"run_id", "stage", "error"}

SuccessKeys == {"run_id", "clips"}

-----------------------------------------------------------------------------
(* Properties *)

\* C1: whenever a Run reaches a terminal state (Completed or Failed) its
\* workspace directory has been released: the directory and the files in it
\* no longer exist.
C1_WorkspaceReleasedAtTerminal ==
  \A r \in Runs : pc[r] \in Terminal => ~OwnDir(r) /\ OwnFiles(r) = {}

\* C2: a failure of the download, transcription or proposal stage reaches
\* the caller as a structured, stage-tagged failure result and never as an
\* exception that leaves the handler.
C2_StageFailureIsStructured ==
  \A r \in Runs :
    (pc[r] = "Failed" /\ ~Contains(visited[r], "Validating"))
      => /\ response[r].kind # "unhandled_exception"
         /\ response[r].keys = StructuredFailureKeys

\* C3: every authenticated call that terminates returns either a success
\* body with run_id and clips or a failure body with run_id, stage and
\* error; a Run whose stages all succeed returns run_id and clips.
C3_ResultIsSuccessOrFailure ==
  \A r \in Runs :
    /\ pc[r] = "Completed" => response[r].keys = SuccessKeys
    /\ pc[r] = "Failed" => response[r].keys = StructuredFailureKeys

\* C4: the clip list a Run ends with is sorted by start, non-overlapping,
\* has every duration in [30, 60], every edge in the BoundarySet of the
\* transcript, and at most MaxClips entries.
C4_FinalClipsAreValidated ==
  \A r \in Runs :
    pc[r] = "Completed" => ValidClipList(clip_moments[r], BoundarySet(transcript[r]))

\* C5 as stated: a payload that, once stripped, is not valid JSON or parses
\* to a value that is not a sequence makes the Run fail; it does not
\* complete with an empty candidate list.
C5_NonSequenceFailsRun ==
  \A r \in Runs :
    Parsed(r) =>
      LET cleaned == CleanJsonString(payload[r]) IN
        (~JsonLoadsOk(cleaned) \/ ~IsList(JsonLoads(cleaned))) => pc[r] = "Failed"

\* C5 as amended: a stripped payload that is not valid JSON makes the Run
\* fail with the JSONDecodeError leaving the handler; one that parses to a
\* value that is not a sequence does not fail the Run: it completes with an
\* empty candidate list.
C5_InvalidJsonFailsNonListIsEmpty ==
  \A r \in Runs :
    Parsed(r) =>
      LET cleaned == CleanJsonString(payload[r]) IN
        /\ ~JsonLoadsOk(cleaned)
             => pc[r] = "Failed" /\ response[r] = Unhandled("JSONDecodeError")
        /\ (JsonLoadsOk(cleaned) /\ ~IsList(JsonLoads(cleaned)))
             => pc[r] = "Completed" /\ clip_moments[r] = <<>>

\* C5 witness: one Run completed on a payload holding a JSON object, and
\* another failed on a payload that is not JSON.
C5_Witness ==
  \E r, q \in Runs :
    /\ Parsed(r) /\ pc[r] = "Completed"
    /\ JsonLoadsOk(CleanJsonString(payload[r]))
    /\ ~IsList(JsonLoads(CleanJsonString(payload[r])))
    /\ Parsed(q) /\ pc[q] = "Failed"
    /\ ~JsonLoadsOk(CleanJsonString(payload[q]))

\* C6: a payload that parses to an empty sequence, or to a sequence whose
\* candidates are all invalid, raises no error: the Run completes and its
\* clip list is empty.
C6_AllInvalidGivesNoClips ==
  \A r \in Runs :
    Parsed(r) =>
      LET cleaned == CleanJsonString(payload[r]) IN
        (/\ JsonLoadsOk(cleaned)
         /\ IsList(JsonLoads(cleaned))
         /\ \A i \in 1 .. Len(JsonLoads(cleaned).items) :
              ~WellFormed(JsonLoads(cleaned).items[i]))
          => pc[r] = "Completed" /\ clip_moments[r] = <<>>

\* C7: a request whose bearer token differs from the secret is answered
\* 401 "Invalid bearer token" before any Run exists: it has no run id, no
\* workspace directory or file, and no stage was invoked for it.
C7_BadTokenRejectedBeforeRun ==
  /\ \A r \in Runs :
       (pc[r] # "Idle" /\ token[r] # AUTH_TOKEN)
         => /\ pc[r] = "Rejected"
            /\ response[r].status = 401
            /\ response[r].detail = "Invalid bearer token"
            /\ run_id[r] = None
            /\ visited[r] = <<>>
            /\ \A s \in ExternalStages : calls[r][s] = 0
  /\ dirs = {Workspace(run_id[r]) : r \in {q \in Runs : token[q] = AUTH_TOKEN /\ pc[q] # "Idle"}}
  /\ \A f \in files : f.dir \in dirs

\* C7 witness: one request was rejected while another ran to completion.
C7_Witness ==
  \E r, q \in Runs : pc[r] = "Rejected" /\ pc[q] = "Completed" /\ dirs # {}

\* C8: a Run visits Created, Downloading, Transcribing, ProposingMoments,
\* Validating, Completed in this order without skipping or repeating, can
\* leave the order only to Failed, where it stays, and each external stage
\* is invoked at most once and only after the earlier stages succeeded.
C8_StagesInOrderAtMostOnce ==
  \A r \in Runs :
    /\ \/ IsPrefix(visited[r], Stages)
       \/ /\ Len(visited[r]) >= 2
          /\ visited[r][Len(visited[r])] = "Failed"
          /\ IsPrefix(SubSeq(visited[r], 1, Len(visited[r]) - 1), Stages)
          /\ Len(visited[r]) - 1 < Len(Stages)
    /\ visited[r] # <<>> => pc[r] = visited[r][Len(visited[r])]
    /\ \A s \in ExternalStages :
         /\ calls[r][s] <= 1
         /\ calls[r][s] = 1 <=> Contains(visited[r], s)

\* C8 witness: one Run went through every stage and another failed in the
\* transcription stage.
C8_Witness ==
  \E r, q \in Runs :
    /\ visited[r] = Stages
    /\ visited[q] = <<"Created", "Downloading", "Transcribing", "Failed">>

C9_Isolated ==
  /\ \A r, q \in Runs :
       (r # q /\ run_id[r] # None /\ run_id[q] # None)
         => run_id[r] # run_id[q] /\ Workspace(run_id[r]) # Workspace(run_id[q])
  /\ \A f \in files : \E r \in Runs : f \in OwnFiles(r)

C9_StepIsLocal ==
  /\ \A r \in Runs :
       pc'[r] # pc[r] =>
         /\ (files' \ files) \subseteq {f \in files' : f.dir = Workspace(run_id'[r])}
         /\ (dirs' \ dirs) \subseteq {Workspace(run_id'[r])}
         /\ \A q \in Runs \ {r} :
              /\ OwnFiles(q)' = OwnFiles(q)
              /\ OwnDir(q)' = OwnDir(q)
              /\ run_id'[q] = run_id[q]
              /\ transcript'[q] = transcript[q]
              /\ payload'[q] = payload[q]
              /\ clip_moments'[q] = clip_moments[q]
  /\ (\E r \in Runs : pc'[r] # pc[r]) => handles' = handles

\* C9: concurrent Runs have distinct run ids and workspaces, every file
\* lies in the workspace of the Run that wrote it, no step of a Run changes
\* the workspace, transcript or candidates of another Run, and no Run
\* assigns the handles that load_model set.
C9_RunsAreIsolated == [](C9_Isolated) /\ [][C9_StepIsLocal]_vars

\* C9 witness: one Run waits for its download while another, with its
\* audio file written, is in the proposal stage.
C9_Witness ==
  \E r, q \in Runs :
    /\ r # q
    /\ pc[r] = "ProposingMoments"
    /\ pc[q] = "Downloading"
    /\ File(Workspace(run_id[r]), "audio.wav") \in files
    /\ File(Workspace(run_id[q]), "input.mp4") \in files

\* C10: a Run yields the event loop during each of the download,
\* transcription and proposal stages, and holds it everywhere else in the
\* handler.
C10_YieldsExactlyInExternalStages ==
  \A r \in Runs :
    /\ pc[r] \in ExternalStages => loopOwner # r
    /\ pc[r] \in {"Created", "Validating"} => loopOwner = r

====
